---- MODULE Spec2Model ----
(***************************************************************************)
(* Trade pairing and outcome aggregation of the richer-js analysis        *)
(* scripts: deep_analysis.py, full_analysis_report.py,                     *)
(* analyze_experiment.py and analyze_trade_tokens.py.                      *)
(*                                                                         *)
(* A JSON value is modelled as a record [k, v]: k is its kind and v its   *)
(* number (0 when the kind carries none).                                  *)
(*   absent  the key is not in the mapping                                 *)
(*   none    JSON null                                                     *)
(*   num     a JSON number v                                               *)
(*   numstr  a string that float() parses to v ("0" is numstr with v = 0) *)
(*   empty   the string ""                                                 *)
(*   str     a string float() rejects, e.g. "abc"                          *)
(* A Python exception ends the script: err holds its name, pc stays at    *)
(* the section that raised it, and no step follows.                        *)
(***************************************************************************)
EXTENDS Integers, Sequences, FiniteSets, TLC

\* ------------------------------------------------------------------ bounds
MaxTrades == 3
MaxPairs == 3
MaxTokens == 5
MaxSnapshots == 4
MaxOriginTokens == 2
MaxStamped == 2
MaxAgree == 3

\* ------------------------------------------------------------------ values
Absent == [k |-> "absent", v |-> 0]
None == [k |-> "none", v |-> 0]
Empty == [k |-> "empty", v |-> 0]
Str == [k |-> "str", v |-> 0]
Num(n) == [k |-> "num", v |-> n]
NumStr(n) == [k |-> "numstr", v |-> n]

IsNum(x) == x.k = "num"

\* dict.get(key, default): the default only when the key is absent.
Get(x, default) == IF x.k = "absent" THEN default ELSE x

\* float(x): a number, or the exception it raises.
FloatErr(x) ==
    CASE x.k \in {"num", "numstr"} -> "none"
      [] x.k \in {"empty", "str"} -> "ValueError"
      [] OTHER -> "TypeError"

\* ------------------------------------------------------------------ state
VARIABLES
    script,         \* which script runs
    pc,             \* position in the script
    trades,         \* trades_data['data'], as loaded
    file,           \* analyze_experiment main: the state of the data file
    responses,      \* fetch_data: what each endpoint answers
    data,           \* fetch_data: the mapping it builds
    tokens,         \* tokens_data['data'], as loaded
    buy_trades,     \* positions in trades of the records tagged buy
    sell_trades,    \* positions in trades of the records tagged sell
    token_map,      \* deep_analysis: token address -> parsed tvl and fdv;
                    \* analyze_trade_tokens: token_info, address -> raw tvl and fdv
    trades_by_token,\* the trades grouped by token address, as positions in trades
    profitable_tokens, \* analyze_trade_tokens: rows with profit > 0
    loss_tokens,    \* analyze_trade_tokens: the other rows
    bi,             \* index of the next iteration of the pairing loop
    trade_results,  \* the TradePairs produced so far
    report,         \* the statistics computed so far
    err             \* the exception raised, or "none"

vars == <<script, pc, trades, tokens, file, responses, data, buy_trades, sell_trades, token_map,
          trades_by_token, profitable_tokens, loss_tokens, bi, trade_results, report, err>>

\* The script is at section p and has raised nothing.
Running(p) == pc = p /\ err = "none"

\* What no step of the scripts writes.
inputs == <<script, trades, tokens, file, responses>>
\* What only analyze_trade_tokens.py and analyze_experiment.py write.
grouped == <<trades_by_token, profitable_tokens, loss_tokens>>

\* ------------------------------------------------------------------ inputs
AddrName == <<"A", "B", "C", "D", "E", "F", "G", "H">>
Addrs == {"A", "B"}
\* Pairing compares times only for order: earlier, equal and later suffice.
Times == {0, 1, 2}

\* executed is what the record holds under executed_at: "value" (the time
\* executed_at), "none" (null) or "absent" (no such key).  created_at is the
\* time under created_at.
BuyRec(a, t) ==
    [token_address |-> a, trade_direction |-> "buy", executed_at |-> t,
     executed |-> "value", created_at |-> t,
     unit_price |-> Num(100),
     profitPercent |-> Absent, holdDuration |-> Absent,
     input_amount |-> Num(10), output_amount |-> Absent,
     raw_tvl |-> Absent, raw_fdv |-> Absent]

\* A sell of what was bought at 100; the price moved half as far as the profit
\* percent the bot recorded.
SellRec(a, t, p, h) ==
    [token_address |-> a, trade_direction |-> "sell", executed_at |-> t,
     executed |-> "value", created_at |-> t,
     unit_price |-> Num(100 + (IF p.k = "num" THEN p.v \div 2 ELSE 0)),
     profitPercent |-> p, holdDuration |-> h,
     input_amount |-> Absent, output_amount |-> Num(5),
     raw_tvl |-> Absent, raw_fdv |-> Absent]

\* A sell that carries a raw_api_data mapping of its own, with these tvl and fdv.
SellRecRaw(a, t, p, h, tvl, fdv) ==
    [SellRec(a, t, p, h) EXCEPT !.raw_tvl = tvl, !.raw_fdv = fdv]

\* Record r with executed_at absent or null, and created at time c.
Unstamped(r, executed, c) ==
    [r EXCEPT !.executed = executed, !.executed_at = 0, !.created_at = c]
\* Record r created at time c.
CreatedAt(r, c) == [r EXCEPT !.created_at = c]

TokenRec(a, tvl, fdv) == [token_address |-> a, tvl |-> tvl, fdv |-> fdv]

SeqsUpTo(S, n) == UNION {[1..k -> S] : k \in 0..n}

\* fetch_data: the endpoints in the order of the endpoints dict, and what a
\* GET can come to: a JSON object with a data list, the object {}, a JSON
\* array, or an exception of requests.get or response.json().
Endpoints == <<"tokens", "signals", "trades", "portfolio">>
Outcomes == {"object", "empty_object", "array", "ConnectionError", "Timeout",
             "JSONDecodeError"}
AllAnswer == [key \in {Endpoints[i] : i \in 1..Len(Endpoints)} |-> "object"]

Run(sc, ts, toks) ==
    [script |-> sc, trades |-> ts, tokens |-> toks, file |-> "ok",
     responses |-> AllAnswer]

\* Buy k at time 2k-2 and its sell at time 2k-1 with profit percent ps[k].
AggTrades(ps) ==
    [i \in 1..(2 * Len(ps)) |->
        IF i % 2 = 1 THEN BuyRec("A", i - 1)
        ELSE SellRec("A", i - 1, Num(ps[i \div 2]), Num(600 * (i \div 2)))]
WinAndLoss == AggTrades(<<60, -50>>)

PairingScripts == {"deep_analysis", "full_analysis_report", "analyze_experiment",
                   "analyze_trade_tokens"}
Scripts == PairingScripts \cup {"analyze_tokens"}

OneToken == <<TokenRec("A", NumStr(100), NumStr(5000))>>
\* Every script on one token list and a winning and a losing pair.
BaseRuns == {Run(sc, WinAndLoss, OneToken) : sc \in Scripts \cup {"fetch_data"}}

\* Fetch inputs: every endpoint answers in any of the ways.
FetchRuns ==
    {[Run("fetch_data", <<>>, <<>>) EXCEPT !.responses = rs] :
        rs \in [DOMAIN AllAnswer -> Outcomes]}
    \cup BaseRuns

\* Pairing inputs: any order of at most n buys and sells of two tokens.  The
\* scripts compare addresses for equality only, so the first record is one of
\* token A; a sell at time 0 is later than no buy, so it carries no metadata.
PairMeta == {<<Absent, Absent>>, <<Num(-50), Num(600)>>}
PairRecords(addrs) ==
    {BuyRec(a, t) : a \in addrs, t \in Times}
    \cup {SellRec(a, 0, Absent, Absent) : a \in addrs}
    \cup {SellRec(x[1], x[2], x[3][1], x[3][2]) : x \in addrs \X (Times \ {0}) \X PairMeta}
PairLists(n) ==
    {<<>>} \cup {<<x[1]>> \o x[2] :
                   x \in PairRecords({"A"}) \X SeqsUpTo(PairRecords(Addrs), n - 1)}
\* A buy of token A at time 0 and its sell at time 10, at a loss of 50 percent
\* after 600 seconds.
ExampleTrades == <<BuyRec("A", 0), SellRec("A", 10, Num(-50), Num(600))>>
PairRuns(n) ==
    {Run(sc, ts, OneToken) : sc \in PairingScripts, ts \in PairLists(n) \cup {ExampleTrades}}
    \cup BaseRuns

\* Aggregation inputs: the profits of the at most n pairs are any list over
\* AggProfits.
AggProfits == {-50, -20, 0, 20, 50, 60}
AggRuns(n) ==
    {Run(sc, AggTrades(ps), OneToken) : sc \in PairingScripts,
                                        ps \in SeqsUpTo(AggProfits, n)}
    \cup BaseRuns

\* Startup inputs: the aggregation inputs, and analyze_experiment with a data
\* file that is missing or holds no JSON, from which nothing is loaded.
LoadRuns(n) ==
    {[Run("analyze_experiment", <<>>, <<>>) EXCEPT !.file = f] :
        f \in {"missing", "malformed"}}
    \cup AggRuns(n)

\* Field inputs: one pair and one snapshot whose numeric fields are of any kind.
FieldValues == {Absent, None, Empty, Str, NumStr(0), NumStr(20), Num(0), Num(20)}
FieldRuns(scripts) ==
    {Run(sc, <<BuyRec("A", 0), SellRec("A", 1, x[1], x[2])>>,
         <<TokenRec("A", x[3], x[3])>>) :
        sc \in scripts, x \in FieldValues \X FieldValues \X FieldValues}
    \cup BaseRuns

\* Token inputs: at most n snapshots of distinct addresses with any of these
\* tvl values.
TvlValues == {NumStr(0), NumStr(100), NumStr(200), NumStr(300)}
TokenLists(n) ==
    {[i \in 1..Len(vs) |-> TokenRec(AddrName[i], vs[i], NumStr(5000))] :
        vs \in SeqsUpTo(TvlValues, n)}
TokenRuns(n) ==
    {Run(sc, WinAndLoss, toks) : sc \in Scripts, toks \in TokenLists(n)}
        \cup BaseRuns

\* Snapshot inputs: at most n snapshots of distinct addresses whose tvl and fdv
\* are of any kind, and the list 0, 0, 100, 200, 300, 400.
TvlKinds == {Absent, None, Empty, Str, Num(0), Num(-100), NumStr(100), Num(200),
             NumStr(300)}
SnapshotsOf(vs) == [i \in 1..Len(vs) |-> TokenRec(AddrName[i], vs[i], vs[i])]
ExampleTvls == <<Num(0), Num(0), Num(100), Num(200), Num(300), Num(400)>>
TvlReporters == {"deep_analysis", "full_analysis_report", "analyze_tokens"}
SnapshotRuns(n) ==
    {Run(sc, WinAndLoss, SnapshotsOf(vs)) : sc \in TvlReporters,
                                            vs \in SeqsUpTo(TvlKinds, n) \cup {ExampleTvls}}
    \cup BaseRuns

\* Origin inputs: one pair of token A whose sell carries tvl and fdv of its
\* own, and at most n snapshots of tokens A and B.
OriginRaw == {Absent, Str, NumStr(300)}
OriginTvls == {Absent, Str, NumStr(0), NumStr(100), Num(200)}
OriginScripts == {"deep_analysis", "analyze_experiment"}
OriginSnapshots(n) ==
    SeqsUpTo({TokenRec(a, v, v) : a \in Addrs, v \in OriginTvls}, n)
OriginRuns(n) ==
    {Run(sc, <<BuyRec("A", 0), SellRecRaw("A", t, Num(-50), Num(600), raw, raw)>>, toks) :
        sc \in OriginScripts, t \in Times \ {0}, raw \in OriginRaw,
        toks \in OriginSnapshots(n)}
    \cup BaseRuns

\* Timestamp inputs: at most n buys and sells of token A whose executed_at
\* is a time, null or missing, and whose created_at is a time.
StampBases == {BuyRec("A", 0), SellRec("A", 0, Num(-50), Num(600))}
StampRecords ==
    {CreatedAt([r EXCEPT !.executed_at = t], c) : r \in StampBases, t \in Times, c \in Times}
    \cup {Unstamped(r, e, c) : r \in StampBases, e \in {"absent", "none"}, c \in Times}
StampRuns(n) ==
    {Run(sc, ts, OneToken) : sc \in PairingScripts, ts \in SeqsUpTo(StampRecords, n)}
    \cup BaseRuns

\* Inputs of the two per-buy pairings side by side: any order of at most n
\* buys and sells of two tokens, some of the sells with a null executed_at.
AgreeScripts == {"deep_analysis", "analyze_experiment"}
AgreeRecords(addrs) ==
    PairRecords(addrs)
    \cup {Unstamped(SellRec(a, 0, Absent, Absent), "none", 0) : a \in addrs}
AgreeLists(n) ==
    {<<>>} \cup {<<x[1]>> \o x[2] :
                   x \in AgreeRecords({"A"}) \X SeqsUpTo(AgreeRecords(Addrs), n - 1)}
AgreeRuns(n) ==
    {Run(sc, ts, OneToken) : sc \in AgreeScripts, ts \in AgreeLists(n)}
    \cup BaseRuns

\* ------------------------------------------------------------------ helpers
RECURSIVE FilterDir(_, _, _)
\* [t for t in trades if t.get('trade_direction') == dir], as positions in ts.
FilterDir(ts, dir, i) ==
    IF i > Len(ts) THEN <<>>
    ELSE IF ts[i].trade_direction = dir
         THEN <<i>> \o FilterDir(ts, dir, i + 1)
         ELSE FilterDir(ts, dir, i + 1)

\* x not in ['0', '', None], x = raw.get('tvl') (None when the key is absent).
NotZeroish(x) == ~(x.k \in {"absent", "none", "empty"} \/ (x.k = "numstr" /\ x.v = 0))

\* deep_analysis: float(raw.get(key, 0)) if raw.get(key) not in ['0', '', None]
\* else 0, inside try / except: tvl = 0.
ParseTvl(x) ==
    IF NotZeroish(x)
    THEN IF FloatErr(Get(x, Num(0))) = "none" THEN x.v ELSE 0
    ELSE 0

\* The last snapshot of an address wins: token_map[addr] = {...} overwrites.
LastOf(toks, a) ==
    toks[CHOOSE i \in 1..Len(toks) :
            /\ toks[i].token_address = a
            /\ \A j \in (i + 1)..Len(toks) : toks[j].token_address # a]

BuildMap(toks) ==
    [a \in {toks[i].token_address : i \in 1..Len(toks)} |->
        [tvl |-> ParseTvl(LastOf(toks, a).tvl), fdv |-> ParseTvl(LastOf(toks, a).fdv)]]

\* token_map.get(token_addr, {}).get(key, 0)
MapGet(m, a) == IF a \in DOMAIN m THEN m[a] ELSE [tvl |-> 0, fdv |-> 0]

\* t.get('executed_at', t.get('created_at')): created_at only when the record
\* has no executed_at key.
TimeOf(r) == IF r.executed = "absent" THEN r.created_at ELSE r.executed_at
\* .replace('Z', '+00:00') of it: None has no replace.
TimeErr(r) == IF r.executed = "none" THEN "AttributeError" ELSE "none"

\* SellMatches with the times compared by >=.
SellMatchesOrEqual(ts, b, s) ==
    /\ ts[s].token_address = ts[b].token_address
    /\ TimeOf(ts[s]) >= TimeOf(ts[b])

\* The condition of the inner loop: same address and a strictly later time.
SellMatches(ts, b, s) ==
    /\ ts[s].token_address = ts[b].token_address
    /\ TimeOf(ts[s]) > TimeOf(ts[b])

RECURSIVE ScanSellsErr(_, _, _, _)
\* sell_time is parsed for every sell the scan reaches, before the test.
ScanSellsErr(ts, b, ss, j) ==
    IF j > Len(ss) THEN "none"
    ELSE IF TimeErr(ts[ss[j]]) # "none" THEN TimeErr(ts[ss[j]])
    ELSE IF SellMatches(ts, b, ss[j]) THEN "none"
    ELSE ScanSellsErr(ts, b, ss, j + 1)

RECURSIVE ScanSellsOrFirst(_, _, _, _)
\* ScanSells falling back to the first sell when none matches.
ScanSellsOrFirst(ts, b, ss, j) ==
    IF j > Len(ss) THEN (IF ss = <<>> THEN 0 ELSE ss[1])
    ELSE IF SellMatches(ts, b, ss[j]) THEN ss[j]
    ELSE ScanSellsOrFirst(ts, b, ss, j + 1)

RECURSIVE ScanSellsUnused(_, _, _, _)
\* ScanSells passing over the sells that a TradePair already holds.
ScanSellsUnused(ts, b, ss, j) ==
    IF j > Len(ss) THEN 0
    ELSE IF /\ SellMatches(ts, b, ss[j])
            /\ \A i \in 1..Len(trade_results) : trade_results[i].sell # ss[j]
         THEN ss[j]
    ELSE ScanSellsUnused(ts, b, ss, j + 1)

RECURSIVE ScanSells(_, _, _, _)
\* for sell in sell_trades: if <match>: ...; break.  The position in ts of the
\* sell the loop stops at, 0 when it runs to the end.
ScanSells(ts, b, ss, j) ==
    IF j > Len(ss) THEN 0
    ELSE IF SellMatches(ts, b, ss[j]) THEN ss[j]
    ELSE ScanSells(ts, b, ss, j + 1)

\* An f-string field with a numeric format code ({x:.2f}) applied to x.
FormatErr(x) ==
    CASE x.k = "num" -> "none"
      [] x.k = "none" -> "TypeError"
      [] OTHER -> "ValueError"

FirstErr(es) ==
    IF \E i \in 1..Len(es) : es[i] # "none"
    THEN es[CHOOSE i \in 1..Len(es) : es[i] # "none" /\ \A j \in 1..(i - 1) : es[j] = "none"]
    ELSE "none"

\* The comparison p < 0 or p > 0 of a value with an int.
CompareErr(x) == IF x.k = "num" THEN "none" ELSE "TypeError"

Frac(n, d) == [num |-> n, den |-> d]

RECURSIVE Sum(_)
Sum(xs) == IF xs = <<>> THEN 0 ELSE Head(xs) + Sum(Tail(xs))

Max(xs) == CHOOSE x \in {xs[i] : i \in 1..Len(xs)} : \A i \in 1..Len(xs) : xs[i] <= x
Min(xs) == CHOOSE x \in {xs[i] : i \in 1..Len(xs)} : \A i \in 1..Len(xs) : xs[i] >= x

\* Sorted that leaves the list as it is.
Unsorted(xs) == xs

\* sorted(xs)
Sorted(xs) == SortSeq(xs, LAMBDA a, b : a < b)

\* statistics.mean of a non-empty list.
Mean(xs) == Frac(Sum(xs), Len(xs))

\* statistics.median of a non-empty list: the middle element of the sorted
\* list, or the mean of the two middle ones.
Median(xs) ==
    LET s == Sorted(xs)
        n == Len(s)
    IN IF n % 2 = 1 THEN Frac(s[(n \div 2) + 1], 1)
       ELSE Frac(s[n \div 2] + s[(n \div 2) + 1], 2)

\* xs[i] of Python, xs a list: positions count from 0.
At(xs, i) == xs[i + 1]
\* What xs[i] raises, i >= 0.
IndexErr(xs, i) == IF i < Len(xs) THEN "none" ELSE "IndexError"

\* ------------------------------------------------------------------ scripts
FlatScripts == {"deep_analysis", "full_analysis_report"}

NoReport == <<>>

\* deep_analysis.py lines 19-43.
BuildTokenMap ==
    /\ Running("token_map")
    /\ token_map' = BuildMap(tokens)
    /\ pc' = "partition"
    /\ UNCHANGED <<inputs, data, grouped, buy_trades, sell_trades, bi, trade_results,
                   report, err>>

\* buy_trades / sell_trades of deep_analysis.py and full_analysis_report.py.
Partition ==
    /\ Running("partition")
    /\ buy_trades' = FilterDir(trades, "buy", 1)
    /\ sell_trades' = FilterDir(trades, "sell", 1)
    /\ bi' = 1
    /\ pc' = "pair"
    /\ UNCHANGED <<inputs, data, grouped, token_map, trade_results, report, err>>

\* DeepPair with the profit computed from the two prices.
DeepPairFromPrices(b, s) ==
    [buy |-> b, sell |-> s,
     buy_price |-> trades[b].unit_price.v,
     sell_price |-> trades[s].unit_price.v,
     profit |-> Num(((trades[s].unit_price.v - trades[b].unit_price.v) * 100)
                    \div trades[b].unit_price.v),
     hold_seconds |-> Get(trades[s].holdDuration, Num(0)),
     tvl |-> MapGet(token_map, trades[b].token_address).tvl,
     fdv |-> MapGet(token_map, trades[b].token_address).fdv]

\* The TradePair of buy b and sell s.
DeepPair(b, s) ==
    [buy |-> b, sell |-> s,
     buy_price |-> trades[b].unit_price.v,
     sell_price |-> trades[s].unit_price.v,
     profit |-> Get(trades[s].profitPercent, Num(0)),
     hold_seconds |-> Get(trades[s].holdDuration, Num(0)),
     tvl |-> MapGet(token_map, trades[b].token_address).tvl,
     fdv |-> MapGet(token_map, trades[b].token_address).fdv]

FullPair(b, s) ==
    [buy |-> b, sell |-> s,
     buy_price |-> trades[b].unit_price.v,
     sell_price |-> trades[s].unit_price.v,
     profit |-> Get(trades[s].profitPercent, Num(0)),
     hold_seconds |-> Get(trades[s].holdDuration, Num(0))]

\* RecordsAfterPair for a loop body that fills in the defaults with
\* metadata.setdefault('profitPercent', 0).
RecordsWithDefaults(ts, b, s) ==
    IF s = 0 THEN ts ELSE [ts EXCEPT ![s].profitPercent = Get(@, Num(0))]

\* The trade records after the loop body has handled buy b and sell s (0: no
\* sell matched): it reads them with get and assigns to none of their keys.
RecordsAfterPair(ts, b, s) == ts

\* One iteration of `for buy in buy_trades`: the scan of sell_trades, the
\* append, and in deep_analysis the print of the row (line 97).
PairBuy ==
    /\ Running("pair")
    /\ bi <= Len(buy_trades)
    /\ LET b == buy_trades[bi]
           s == ScanSells(trades, b, sell_trades, 1)
           pair == IF script = "deep_analysis" THEN DeepPair(b, s) ELSE FullPair(b, s)
           parse == IF TimeErr(trades[b]) # "none" THEN TimeErr(trades[b])
                    ELSE ScanSellsErr(trades, b, sell_trades, 1)
           e == IF parse # "none" THEN parse
                ELSE IF s # 0 /\ script = "deep_analysis"
                THEN FirstErr(<<FormatErr(pair.profit), FormatErr(pair.hold_seconds)>>)
                ELSE "none"
       IN /\ trade_results' = IF s = 0 \/ parse # "none" THEN trade_results
                               ELSE Append(trade_results, pair)
          /\ err' = e
          /\ pc' = pc
          /\ bi' = bi + 1
          /\ trades' = RecordsAfterPair(trades, b, s)
    /\ UNCHANGED <<script, tokens, file, responses, data, grouped, buy_trades,
                   sell_trades, token_map, report>>

\* ---- aggregation of deep_analysis.py and full_analysis_report.py
Profits == [i \in 1..Len(trade_results) |-> trade_results[i].profit]
NumsOf(vs) == [i \in 1..Len(vs) |-> vs[i].v]
\* IsLoss with the comparison turned round.
IsLossFlipped(p) == p > 0
IsLoss(p) == p < 0
\* IsGain with a profit of 0 taken for a gain.
IsGainOrZero(p) == p >= 0
IsGain(p) == p > 0

DivErr(d) == IF d = 0 THEN "ZeroDivisionError" ELSE "none"
\* statistics.mean / statistics.median of xs.
MeanErr(xs) == IF xs = <<>> THEN "StatisticsError" ELSE "none"
\* min(xs) / max(xs)
MinMaxErr(xs) == IF xs = <<>> THEN "ValueError" ELSE "none"

\* WinLossRatio without the sentinel: the number of gains when nothing is lost.
WinLossRatioOfGains(gains, losses) ==
    IF losses # <<>> THEN Frac(Len(gains), Len(losses)) ELSE Frac(Len(gains), 1)

\* len(gains)/len(losses) if losses else 0
WinLossRatio(gains, losses) ==
    IF losses # <<>> THEN Frac(Len(gains), Len(losses)) ELSE Frac(0, 1)
WinLossRatioErr(gains, losses) ==
    IF losses # <<>> THEN DivErr(Len(losses)) ELSE "none"

\* The script stops with exception e, or goes on to `next` with the fields.
Proceed(e, fields, next) ==
    /\ err' = e
    /\ pc' = IF e # "none" THEN pc ELSE next
    /\ report' = IF e # "none" THEN report ELSE fields @@ report

\* deep_analysis.py lines 100-112 and full_analysis_report.py lines 62-74.
ProfitStats ==
    /\ Running("profit_stats")
    /\ LET cmp == FirstErr([i \in 1..Len(Profits) |-> CompareErr(Profits[i])])
           profits == NumsOf(Profits)
           losses == SelectSeq(profits, IsLoss)
           gains == SelectSeq(profits, IsGain)
           e == IF script = "deep_analysis"
                THEN FirstErr(<<cmp, MeanErr(profits), MinMaxErr(profits),
                                WinLossRatioErr(gains, losses)>>)
                ELSE FirstErr(<<cmp, DivErr(Len(trade_results)), MeanErr(profits),
                                MinMaxErr(profits), WinLossRatioErr(gains, losses)>>)
           fields == [total |-> Len(trade_results),
                      gains |-> Len(gains),
                      losses |-> Len(losses),
                      mean_profit |-> Mean(profits),
                      max_profit |-> Max(profits),
                      min_profit |-> Min(profits),
                      ratio |-> WinLossRatio(gains, losses)]
           rates == [gain_rate |-> Frac(100 * Len(gains), Len(trade_results)),
                     loss_rate |-> Frac(100 * Len(losses), Len(trade_results))]
       IN Proceed(e,
                  IF script = "deep_analysis" THEN fields ELSE rates @@ fields,
                  IF script = "deep_analysis" THEN "hold_stats" ELSE "traded_tokens")
    /\ UNCHANGED <<inputs, data, grouped, buy_trades, sell_trades, token_map, bi,
                   trade_results>>

HoldSeconds == NumsOf([i \in 1..Len(trade_results) |-> trade_results[i].hold_seconds])

\* deep_analysis.py lines 114-119.
HoldStats ==
    /\ Running("hold_stats")
    /\ LET e == FirstErr(<<MeanErr(HoldSeconds), MinMaxErr(HoldSeconds)>>)
           fields == [mean_hold |-> Mean(HoldSeconds),
                      mean_hold_minutes |-> Frac(Sum(HoldSeconds), Len(HoldSeconds) * 60),
                      min_hold |-> Min(HoldSeconds),
                      max_hold |-> Max(HoldSeconds)]
       IN Proceed(e, fields, "tvl_stats")
    /\ UNCHANGED <<inputs, data, grouped, buy_trades, sell_trades, token_map, bi,
                   trade_results>>

\* IsPositive with 0 let through.
IsNonNegative(x) == x >= 0
IsPositive(x) == x > 0

\* deep_analysis.py lines 121-132.
TvlStats ==
    /\ Running("tvl_stats")
    /\ LET all == [i \in 1..Len(trade_results) |-> trade_results[i].tvl]
           tvls == SelectSeq(all, IsPositive)
           fields == [traded_tvl_count |-> Len(tvls),
                      zero_tvl_trades |-> Len(SelectSeq(all, LAMBDA x : x = 0))]
           stats == [traded_tvl_min |-> Min(tvls), traded_tvl_max |-> Max(tvls),
                     traded_tvl_mean |-> Mean(tvls), traded_tvl_median |-> Median(tvls)]
       IN Proceed("none", IF tvls # <<>> THEN stats @@ fields ELSE fields, "tvl_dist")
    /\ UNCHANGED <<inputs, data, grouped, buy_trades, sell_trades, token_map, bi,
                   trade_results>>

\* list(token_map.values()): one entry per address, in the order the
\* addresses first appear in the token list.
RECURSIVE MapValues(_, _, _)
MapValues(toks, m, i) ==
    IF i > Len(toks) THEN <<>>
    ELSE IF \E j \in 1..(i - 1) : toks[j].token_address = toks[i].token_address
         THEN MapValues(toks, m, i + 1)
         ELSE <<m[toks[i].token_address].tvl>> \o MapValues(toks, m, i + 1)

\* full_analysis_report.py lines 114-122: the parsed tvl of every snapshot.
TokenTvls(toks) == [i \in 1..Len(toks) |-> ParseTvl(toks[i].tvl)]

\* The 75th percentile index rounded up.
P75IndexUp(n) == ((n * 3) + 3) \div 4
\* len(xs)//4 and len(xs)*3//4 of a list of n values.
P25Index(n) == n \div 4
P75Index(n) == (n * 3) \div 4

\* deep_analysis.py lines 134-143 and full_analysis_report.py lines 112-132.
TvlDist ==
    /\ Running("tvl_dist")
    /\ LET all_tvls == IF script = "deep_analysis"
                       THEN SelectSeq(MapValues(tokens, token_map, 1), IsPositive)
                       ELSE SelectSeq(TokenTvls(tokens), IsPositive)
           sorted == Sorted(all_tvls)
           n == Len(sorted)
           fields == [tvl_count |-> n, tvl_sorted |-> sorted]
           stats == [tvl_median |-> Median(all_tvls),
                     tvl_p25 |-> At(sorted, P25Index(n)),
                     tvl_p75 |-> At(sorted, P75Index(n))]
           minmax == [tvl_min |-> Min(sorted), tvl_max |-> Max(sorted)]
           e == IF all_tvls = <<>> THEN "none"
                ELSE FirstErr(<<IndexErr(sorted, P25Index(n)),
                                IndexErr(sorted, P75Index(n))>>)
       IN Proceed(e,
                  IF all_tvls = <<>> THEN fields
                  ELSE IF script = "deep_analysis" THEN stats @@ fields
                  ELSE minmax @@ stats @@ fields,
                  IF script = "deep_analysis" THEN "hold_compare" ELSE "done")
    /\ UNCHANGED <<inputs, data, grouped, buy_trades, sell_trades, token_map, bi,
                   trade_results>>

\* deep_analysis.py lines 145-151.
HoldCompare ==
    /\ Running("hold_compare")
    /\ LET idx(Test(_)) == SelectSeq([i \in 1..Len(trade_results) |-> i],
                                     LAMBDA i : Test(trade_results[i].profit.v))
           loss_holds == [k \in 1..Len(idx(IsLoss)) |-> HoldSeconds[idx(IsLoss)[k]]]
           gain_holds == [k \in 1..Len(idx(IsGain)) |-> HoldSeconds[idx(IsGain)[k]]]
           e == FirstErr(<<MeanErr(loss_holds), MeanErr(gain_holds)>>)
           fields == [loss_hold_minutes |-> Frac(Sum(loss_holds), Len(loss_holds) * 60),
                      gain_hold_minutes |-> Frac(Sum(gain_holds), Len(gain_holds) * 60)]
       IN Proceed(e, fields, "price_changes")
    /\ UNCHANGED <<inputs, data, grouped, buy_trades, sell_trades, token_map, bi,
                   trade_results>>

\* deep_analysis.py lines 153-163: the change in percent of every pair
\* bought at a positive price, as the numerator over the buy price.
PriceChanges ==
    /\ Running("price_changes")
    /\ LET priced == SelectSeq(trade_results, LAMBDA t : t.buy_price > 0)
           price_changes == [i \in 1..Len(priced) |->
               (priced[i].sell_price - priced[i].buy_price) * 100]
           e == IF price_changes # <<>>
                THEN FirstErr(<<MeanErr(SelectSeq(price_changes, IsLoss)),
                                MeanErr(SelectSeq(price_changes, IsGain))>>)
                ELSE "none"
       IN Proceed(e, [price_changes |-> Len(price_changes)], "done")
    /\ UNCHANGED <<inputs, data, grouped, buy_trades, sell_trades, token_map, bi,
                   trade_results>>

\* full_analysis_report.py lines 76-100: for every snapshot of a traded token
\* the row of its first TradePair is printed.  A token's symbol stands for
\* its address.
TradedTokens ==
    /\ Running("traded_tokens")
    /\ LET traded == {trades[trade_results[i].buy].token_address :
                          i \in 1..Len(trade_results)}
           first(a) == trade_results[CHOOSE i \in 1..Len(trade_results) :
                          /\ trades[trade_results[i].buy].token_address = a
                          /\ \A j \in 1..(i - 1) :
                                trades[trade_results[j].buy].token_address # a]
           e == FirstErr([i \in 1..Len(tokens) |->
                    IF tokens[i].token_address \in traded
                    THEN FirstErr(<<FormatErr(first(tokens[i].token_address).profit),
                                    FormatErr(first(tokens[i].token_address).hold_seconds)>>)
                    ELSE "none"])
       IN Proceed(e, <<>>, "tvl_dist")
    /\ UNCHANGED <<inputs, data, grouped, buy_trades, sell_trades, token_map, bi,
                   trade_results>>

\* ---- analyze_experiment.py
\* open() / json.load() of main, lines 362-371: the exception raised on the
\* data file.
LoadErr(f) ==
    CASE f = "missing" -> "FileNotFoundError"
      [] f = "malformed" -> "JSONDecodeError"
      [] OTHER -> "none"

\* AfterLoad that goes on to the analysis whatever open() and json.load() did.
AfterLoadGoesOn(f) == "group"

\* Both except clauses return from main; otherwise the analysis follows.
AfterLoad(f) == IF LoadErr(f) = "none" THEN "group" ELSE "stopped"

\* main, lines 360-371.  The message of an except clause goes to the report.
LoadData ==
    /\ Running("load")
    /\ pc' = AfterLoad(file)
    /\ report' = IF LoadErr(file) = "none" THEN report
                  ELSE [message |-> LoadErr(file)] @@ report
    /\ UNCHANGED <<inputs, data, grouped, buy_trades, sell_trades, token_map, bi,
                   trade_results, err>>

\* value not in [None, '', '0', 'null']; 'null' is a str, which float rejects.
NotDefaulted(x) == ~(x.k \in {"none", "empty"} \/ (x.k = "numstr" /\ x.v = 0))

\* safe_float(value, default), lines 34-39.
safe_float(value, default) ==
    IF NotDefaulted(value)
    THEN IF FloatErr(value) = "none" THEN value.v ELSE default
    ELSE default

Positions(ts) == [i \in 1..Len(ts) |-> i]

RECURSIVE GroupBy(_, _)
\* trades_by_token[token_addr].append(trade): a group per address, in the
\* order the addresses first appear.
GroupBy(ts, i) ==
    IF i > Len(ts) THEN <<>>
    ELSE IF \E j \in 1..(i - 1) : ts[j].token_address = ts[i].token_address
         THEN GroupBy(ts, i + 1)
         ELSE <<[token_addr |-> ts[i].token_address,
                 token_trades |-> SelectSeq(Positions(ts),
                     LAMBDA j : ts[j].token_address = ts[i].token_address)]>>
              \o GroupBy(ts, i + 1)

GroupDir(ts, g, dir) == SelectSeq(g.token_trades, LAMBDA j : ts[j].trade_direction = dir)

\* analyze_experiment.py and analyze_trade_tokens.py: the grouping loop.
GroupTrades ==
    /\ Running("group")
    /\ trades_by_token' = GroupBy(trades, 1)
    /\ bi' = 1
    /\ pc' = IF script = "analyze_experiment" THEN "pair_group" ELSE "pair_first"
    /\ UNCHANGED <<inputs, data, buy_trades, sell_trades, token_map, profitable_tokens,
                   loss_tokens, trade_results, report, err>>

RECURSIVE ScanGroupSells(_, _, _, _)
\* for sell in sell_trades: if sell_time > buy_time: ...; break
ScanGroupSells(ts, b, ss, j) ==
    IF j > Len(ss) THEN 0
    ELSE IF TimeOf(ts[ss[j]]) > TimeOf(ts[b]) THEN ss[j]
    ELSE ScanGroupSells(ts, b, ss, j + 1)

RECURSIVE ExpPairsErr(_, _, _, _)
\* buy_time (line 113) and the sell_time (line 117) of every sell the scan
\* reaches are parsed; the sells are all of the buy's token.
ExpPairsErr(ts, buys, sells, k) ==
    IF k > Len(buys) THEN "none"
    ELSE IF TimeErr(ts[buys[k]]) # "none" THEN TimeErr(ts[buys[k]])
    ELSE IF ScanSellsErr(ts, buys[k], sells, 1) # "none"
         THEN ScanSellsErr(ts, buys[k], sells, 1)
    ELSE ExpPairsErr(ts, buys, sells, k + 1)

\* The entry appended to trade_pairs, lines 126-139.
ExpPair(ts, a, b, s) ==
    LET hold_duration == safe_float(Get(ts[s].holdDuration, Num(0)), 0)
    IN [buy |-> b, sell |-> s,
        token_address |-> a,
        profit_percent |-> safe_float(Get(ts[s].profitPercent, Num(0)), 0),
        hold_duration_hours |-> IF hold_duration # 0 THEN Frac(hold_duration, 3600)
                                ELSE Frac(0, 1),
        tvl |-> safe_float(Get(ts[s].raw_tvl, Empty), 0),
        fdv |-> safe_float(Get(ts[s].raw_fdv, Empty), 0),
        input_amount_bnb |-> safe_float(Get(ts[b].input_amount, None), 0),
        output_amount_bnb |-> safe_float(Get(ts[s].output_amount, None), 0)]

RECURSIVE ExpPairs(_, _, _, _, _)
\* for buy in buy_trades: ... of one token's group.
ExpPairs(ts, a, buys, sells, k) ==
    IF k > Len(buys) THEN <<>>
    ELSE LET s == ScanGroupSells(ts, buys[k], sells, 1)
         IN (IF s = 0 THEN <<>> ELSE <<ExpPair(ts, a, buys[k], s)>>)
            \o ExpPairs(ts, a, buys, sells, k + 1)

\* One iteration of `for token_addr, token_trades in trades_by_token.items()`
\* of analyze_trades_and_signals, lines 106-140.  An exception leaves the
\* function, and its trade_pairs with it.
PairGroup ==
    /\ Running("pair_group")
    /\ bi <= Len(trades_by_token)
    /\ LET g == trades_by_token[bi]
           e == ExpPairsErr(trades, GroupDir(trades, g, "buy"),
                            GroupDir(trades, g, "sell"), 1)
       IN /\ err' = e
          /\ trade_results' =
                IF e # "none" THEN trade_results
                ELSE trade_results \o
                     ExpPairs(trades, g.token_addr, GroupDir(trades, g, "buy"),
                              GroupDir(trades, g, "sell"), 1)
    /\ bi' = bi + 1
    /\ UNCHANGED <<inputs, data, grouped, pc, buy_trades, sell_trades, token_map, report>>

RECURSIVE FlatPairs(_, _, _, _)
\* The (buy, sell) positions that the loop of deep_analysis.py 67-98 appends
\* from buy k of buys on: an exception (a timestamp that does not parse, a
\* row that does not print) ends the script with what it has appended.
FlatPairs(ts, buys, sells, k) ==
    IF k > Len(buys) THEN {}
    ELSE IF TimeErr(ts[buys[k]]) # "none" THEN {}
    ELSE IF ScanSellsErr(ts, buys[k], sells, 1) # "none" THEN {}
    ELSE LET s == ScanSells(ts, buys[k], sells, 1)
         IN IF s = 0 THEN FlatPairs(ts, buys, sells, k + 1)
            ELSE {<<buys[k], s>>} \cup
                 (IF FirstErr(<<FormatErr(Get(ts[s].profitPercent, Num(0))),
                                FormatErr(Get(ts[s].holdDuration, Num(0)))>>) # "none"
                  THEN {}
                  ELSE FlatPairs(ts, buys, sells, k + 1))

\* The pairs of deep_analysis.py on trade list ts.
FlatPairsOf(ts) == FlatPairs(ts, FilterDir(ts, "buy", 1), FilterDir(ts, "sell", 1), 1)

RECURSIVE GroupedPairs(_, _, _)
\* The (buy, sell) positions that the loop of analyze_experiment.py 106-140
\* appends from group g of groups on.
GroupedPairs(ts, groups, g) ==
    IF g > Len(groups) THEN {}
    ELSE LET buys == GroupDir(ts, groups[g], "buy")
             sells == GroupDir(ts, groups[g], "sell")
             ps == ExpPairs(ts, groups[g].token_addr, buys, sells, 1)
         IN IF ExpPairsErr(ts, buys, sells, 1) # "none" THEN {}
            ELSE {<<ps[i].buy, ps[i].sell>> : i \in 1..Len(ps)}
                 \cup GroupedPairs(ts, groups, g + 1)

\* The pairs of analyze_trades_and_signals on trade list ts.
GroupedPairsOf(ts) == GroupedPairs(ts, GroupBy(ts, 1), 1)

PercentProfits == [i \in 1..Len(trade_results) |-> trade_results[i].profit_percent]
HoldNums == [i \in 1..Len(trade_results) |-> trade_results[i].hold_duration_hours.num]

\* print_simple_report sections 2-4, lines 408-458.
SimpleStats ==
    /\ Running("simple_stats")
    /\ LET profits == PercentProfits
           fields == [total |-> Len(trade_results),
                      gains |-> Len(SelectSeq(profits, IsGain)),
                      losses |-> Len(SelectSeq(profits, IsLoss)),
                      gain_rate |-> Frac(100 * Len(SelectSeq(profits, IsGain)),
                                         Len(trade_results)),
                      mean_hold |-> Mean(HoldNums),
                      min_hold |-> Min(HoldNums),
                      max_hold |-> Max(HoldNums),
                      max_profit |-> Max(profits),
                      min_profit |-> Min(profits),
                      mean_profit |-> Mean(profits)]
       IN Proceed("none", IF trade_results # <<>> THEN fields ELSE <<>>, "total_pnl")
    /\ UNCHANGED <<inputs, data, grouped, buy_trades, sell_trades, token_map, bi,
                   trade_results>>

\* print_simple_report section 5, lines 460-470.
TotalPnl ==
    /\ Running("total_pnl")
    /\ LET ins == [i \in 1..Len(trade_results) |-> trade_results[i].input_amount_bnb]
           outs == [i \in 1..Len(trade_results) |-> trade_results[i].output_amount_bnb]
           total_investment == Sum(ins)
           total_profit_loss == Sum(outs) - Sum(ins)
           e == IF trade_results # <<>> THEN DivErr(total_investment) ELSE "none"
           fields == [total_investment |-> total_investment,
                      total_profit_loss |-> total_profit_loss,
                      total_return |-> Frac(100 * total_profit_loss, total_investment)]
       IN Proceed(e, IF trade_results # <<>> THEN fields ELSE <<>>, "histogram")
    /\ UNCHANGED <<inputs, data, grouped, buy_trades, sell_trades, token_map, bi,
                   trade_results>>

\* Band with a last branch that tests profit < -20, so that -20 is in no band.
BandOpenBelow(profit) ==
    IF profit > 50 THEN "profit_gt_50"
    ELSE IF profit > 20 THEN "profit_20_50"
    ELSE IF profit > 0 THEN "profit_0_20"
    ELSE IF profit > -20 THEN "loss_0_20"
    ELSE IF profit < -20 THEN "loss_gt_20"
    ELSE "none"

\* Band with every boundary on the upper side.
BandInclusive(profit) ==
    IF profit >= 50 THEN "profit_gt_50"
    ELSE IF profit >= 20 THEN "profit_20_50"
    ELSE IF profit >= 0 THEN "profit_0_20"
    ELSE IF profit >= -20 THEN "loss_0_20"
    ELSE "loss_gt_20"

\* The if / elif chain of lines 484-493.
Band(profit) ==
    IF profit > 50 THEN "profit_gt_50"
    ELSE IF profit > 20 THEN "profit_20_50"
    ELSE IF profit > 0 THEN "profit_0_20"
    ELSE IF profit > -20 THEN "loss_0_20"
    ELSE "loss_gt_20"

Bands == {"profit_gt_50", "profit_20_50", "profit_0_20", "loss_0_20", "loss_gt_20"}

\* print_simple_report section 6, lines 472-498.
Histogram ==
    /\ Running("histogram")
    /\ LET profits == PercentProfits
           profit_ranges == [r \in Bands |->
               Len(SelectSeq(profits, LAMBDA x : Band(x) = r))]
           e == IF trade_results # <<>> THEN DivErr(Len(profits)) ELSE "none"
       IN Proceed(e, IF trade_results # <<>> THEN [profit_ranges |-> profit_ranges]
                     ELSE <<>>, "done")
    /\ UNCHANGED <<inputs, data, grouped, buy_trades, sell_trades, token_map, bi,
                   trade_results>>

\* analyze_tokens, lines 48-91.
AnalyzeTokens ==
    /\ Running("analyze_tokens")
    /\ LET tvls == [i \in 1..Len(tokens) |-> safe_float(Get(tokens[i].tvl, Empty), 0)]
           fdvs == [i \in 1..Len(tokens) |-> safe_float(Get(tokens[i].fdv, Empty), 0)]
           tvl_data == Sorted(SelectSeq(tvls, IsPositive))
           fdv_data == Sorted(SelectSeq(fdvs, IsPositive))
           n == Len(tvl_data)
           fields == [total |-> Len(tokens),
                      tvl_sorted |-> tvl_data,
                      tvl_count |-> n,
                      tvl_min |-> IF tvl_data # <<>> THEN Min(tvl_data) ELSE 0,
                      tvl_max |-> IF tvl_data # <<>> THEN Max(tvl_data) ELSE 0,
                      tvl_median |-> IF tvl_data # <<>> THEN Median(tvl_data) ELSE Frac(0, 1),
                      tvl_p25 |-> IF n >= 4 THEN At(tvl_data, n \div 4) ELSE 0,
                      tvl_p75 |-> IF n >= 4 THEN At(tvl_data, (n * 3) \div 4) ELSE 0,
                      fdv_count |-> Len(fdv_data),
                      fdv_min |-> IF fdv_data # <<>> THEN Min(fdv_data) ELSE 0,
                      fdv_max |-> IF fdv_data # <<>> THEN Max(fdv_data) ELSE 0,
                      fdv_median |-> IF fdv_data # <<>> THEN Median(fdv_data) ELSE Frac(0, 1)]
       IN Proceed("none", fields, "done")
    /\ UNCHANGED <<inputs, data, grouped, buy_trades, sell_trades, token_map, bi,
                   trade_results>>

\* ---- analyze_trade_tokens.py
\* token_info[addr] = {'symbol': ..., 'raw': raw_api_data}, lines 13-19: the
\* raw tvl and fdv of the last snapshot of each address.
BuildInfo(toks) ==
    [a \in {toks[i].token_address : i \in 1..Len(toks)} |->
        [tvl |-> LastOf(toks, a).tvl, fdv |-> LastOf(toks, a).fdv]]

BuildTokenInfo ==
    /\ Running("token_info")
    /\ token_map' = BuildInfo(tokens)
    /\ pc' = "group"
    /\ UNCHANGED <<inputs, data, grouped, buy_trades, sell_trades, bi, trade_results,
                   report, err>>

\* token_info.get(token_addr, {}).get('raw', {}).get(key, '0')
InfoGet(m, a, key) ==
    IF a \in DOMAIN m THEN Get(m[a][key], NumStr(0)) ELSE NumStr(0)

\* x / 3600 of a value x.
DivideErr(x) == IF x.k = "num" THEN "none" ELSE "TypeError"

\* The row of lines 62-70, of the first buy b and the first sell s of a token.
TokenRow(ts, m, a, b, s) ==
    [buy |-> b, sell |-> s,
     tvl |-> InfoGet(m, a, "tvl"),
     fdv |-> InfoGet(m, a, "fdv"),
     profit |-> Get(ts[s].profitPercent, Num(0)),
     hold_hours |-> Frac(Get(ts[s].holdDuration, Num(0)).v, 3600)]

\* One iteration of `for token_addr, token_trades in trades_by_token.items()`,
\* lines 37-75.
PairFirst ==
    /\ Running("pair_first")
    /\ bi <= Len(trades_by_token)
    /\ LET g == trades_by_token[bi]
           buys == GroupDir(trades, g, "buy")
           sells == GroupDir(trades, g, "sell")
           both == buys # <<>> /\ sells # <<>>
           row == TokenRow(trades, token_map, g.token_addr, buys[1], sells[1])
           e == IF both
                THEN FirstErr(<<DivideErr(Get(trades[sells[1]].holdDuration, Num(0))),
                                CompareErr(row.profit)>>)
                ELSE "none"
           win == both /\ e = "none" /\ row.profit.v > 0
           lose == both /\ e = "none" /\ ~(row.profit.v > 0)
       IN /\ profitable_tokens' = IF win THEN Append(profitable_tokens, row)
                                  ELSE profitable_tokens
          /\ loss_tokens' = IF lose THEN Append(loss_tokens, row) ELSE loss_tokens
          /\ err' = e
          /\ pc' = pc
    /\ bi' = bi + 1
    /\ UNCHANGED <<inputs, data, trades_by_token, buy_trades, sell_trades, token_map,
                   trade_results, report>>

\* An f-string field with a width only ({x:<14}) applied to x.
WidthErr(x) == IF x.k = "none" THEN "TypeError" ELSE "none"

RowErrs(rows, E(_)) == FirstErr([i \in 1..Len(rows) |-> E(rows[i])])

\* The two print loops, lines 77-84.
PrintRows ==
    /\ Running("print_rows")
    /\ LET e == RowErrs(loss_tokens \o profitable_tokens,
                        LAMBDA r : FirstErr(<<WidthErr(r.tvl), WidthErr(r.fdv)>>))
       IN Proceed(e, <<>>, "tvl_split")
    /\ UNCHANGED <<inputs, data, grouped, buy_trades, sell_trades, token_map, bi,
                   trade_results>>

\* r['tvl'] != '0' and r['tvl'] != ''
HasTvl(r) == ~(r.tvl.k = "empty" \/ (r.tvl.k = "numstr" /\ r.tvl.v = 0))

\* [float(r['tvl']) for r in rows if r['tvl'] != '0' and r['tvl'] != '']
RowTvls(rows) ==
    LET kept == SelectSeq(rows, HasTvl) IN [i \in 1..Len(kept) |-> kept[i].tvl.v]
RowTvlsErr(rows) ==
    LET kept == SelectSeq(rows, HasTvl) IN RowErrs(kept, LAMBDA r : FloatErr(r.tvl))

\* Lines 91-105.
TvlSplit ==
    /\ Running("tvl_split")
    /\ LET e == FirstErr(<<RowTvlsErr(loss_tokens), RowTvlsErr(profitable_tokens)>>)
           fields == [loss_tvls |-> RowTvls(loss_tokens),
                      profit_tvls |-> RowTvls(profitable_tokens)]
       IN Proceed(e, fields, "hold_averages")
    /\ UNCHANGED <<inputs, data, grouped, buy_trades, sell_trades, token_map, bi,
                   trade_results>>

\* Lines 107-112.
HoldAverages ==
    /\ Running("hold_averages")
    /\ LET profit_holds == [i \in 1..Len(profitable_tokens) |->
                               profitable_tokens[i].hold_hours.num]
           loss_holds == [i \in 1..Len(loss_tokens) |-> loss_tokens[i].hold_hours.num]
           e == FirstErr(<<DivErr(Len(profit_holds)), DivErr(Len(loss_holds))>>)
           fields == [profit_hold_hours |-> Frac(Sum(profit_holds), 3600 * Len(profit_holds)),
                      loss_hold_hours |-> Frac(Sum(loss_holds), 3600 * Len(loss_holds))]
       IN Proceed(e, fields, "done")
    /\ UNCHANGED <<inputs, data, grouped, buy_trades, sell_trades, token_map, bi,
                   trade_results>>

\* ---- fetch_data of analyze_experiment.py
\* What lines 25-27 raise on an outcome: requests.get raises on a connection
\* error or a timeout, response.json() on an undecodable body, and
\* data[key].get of line 27 on a body that is a JSON array.
Raised(outcome) ==
    CASE outcome \in {"ConnectionError", "Timeout", "JSONDecodeError"} -> outcome
      [] outcome = "array" -> "AttributeError"
      [] OTHER -> "none"

\* Caught for an except clause that names the exceptions of requests.get.
CaughtIfRequestFailed(e) == e \in {"ConnectionError", "Timeout"}

\* except Exception as e
Caught(e) == TRUE

\* response.json() of an outcome that does not raise.
Body(outcome) == IF outcome = "object" THEN [data |-> <<>>] ELSE <<>>

\* One iteration of `for key, url in endpoints.items()`, lines 23-30.
FetchEndpoint ==
    /\ Running("fetch")
    /\ bi <= Len(Endpoints)
    /\ LET key == Endpoints[bi]
           e == Raised(responses[key])
       IN IF e = "none"
          THEN /\ data' = (key :> Body(responses[key])) @@ data
               /\ err' = "none"
          ELSE IF Caught(e)
          THEN /\ data' = (key :> <<>>) @@ data
               /\ err' = "none"
          ELSE /\ data' = data
               /\ err' = e
    /\ bi' = bi + 1
    /\ pc' = pc
    /\ UNCHANGED <<inputs, grouped, buy_trades, sell_trades, token_map, trade_results,
                   report>>

\* return data, line 32.
FetchReturn ==
    /\ Running("fetch")
    /\ bi > Len(Endpoints)
    /\ pc' = "done"
    /\ UNCHANGED <<inputs, data, grouped, buy_trades, sell_trades, token_map, bi,
                   trade_results, report, err>>

\* A loop over buys or over token groups has run to its end.
LoopLen == IF pc = "pair" THEN Len(buy_trades) ELSE Len(trades_by_token)
AfterLoop ==
    CASE pc = "pair" -> "profit_stats"
      [] pc = "pair_group" -> "simple_stats"
      [] pc = "pair_first" -> "print_rows"

PairDone ==
    /\ pc \in {"pair", "pair_group", "pair_first"}
    /\ err = "none"
    /\ bi > LoopLen
    /\ pc' = AfterLoop
    /\ UNCHANGED <<inputs, data, grouped, buy_trades, sell_trades, token_map, bi,
                   trade_results, report, err>>

\* Where each script starts, after its json.load calls.
Start(sc) ==
    CASE sc = "deep_analysis" -> "token_map"
      [] sc = "full_analysis_report" -> "partition"
      [] sc = "analyze_experiment" -> "load"
      [] sc = "analyze_trade_tokens" -> "token_info"
      [] sc = "analyze_tokens" -> "analyze_tokens"
      [] sc = "fetch_data" -> "fetch"

\* The state after the json.load calls of a run.
InitOf(runs) ==
    /\ \E r \in runs :
        /\ script = r.script
        /\ trades = r.trades
        /\ tokens = r.tokens
        /\ file = r.file
        /\ responses = r.responses
    /\ pc = Start(script)
    /\ data = <<>>
    /\ buy_trades = <<>>
    /\ sell_trades = <<>>
    /\ token_map = <<>>
    /\ trades_by_token = <<>>
    /\ profitable_tokens = <<>>
    /\ loss_tokens = <<>>
    /\ bi = 1
    /\ trade_results = <<>>
    /\ report = NoReport
    /\ err = "none"

Init == InitOf(PairRuns(MaxTrades))
InitAgg == InitOf(AggRuns(MaxPairs))
InitField == InitOf(FieldRuns(Scripts))
InitToken == InitOf(TokenRuns(MaxTokens))
InitSnapshot == InitOf(SnapshotRuns(MaxSnapshots))
InitOrigin == InitOf(OriginRuns(MaxOriginTokens))
InitStamp == InitOf(StampRuns(MaxStamped))
InitFetch == InitOf(FetchRuns)
InitLoad == InitOf(LoadRuns(MaxPairs))
InitAgree == InitOf(AgreeRuns(MaxAgree))

Next ==
    \/ BuildTokenMap
    \/ Partition
    \/ PairBuy
    \/ PairDone
    \/ ProfitStats
    \/ HoldStats
    \/ TvlStats
    \/ TvlDist
    \/ HoldCompare
    \/ PriceChanges
    \/ TradedTokens
    \/ LoadData
    \/ GroupTrades
    \/ PairGroup
    \/ SimpleStats
    \/ TotalPnl
    \/ Histogram
    \/ AnalyzeTokens
    \/ BuildTokenInfo
    \/ PairFirst
    \/ PrintRows
    \/ TvlSplit
    \/ HoldAverages
    \/ FetchEndpoint
    \/ FetchReturn

\* The scripts on pairing inputs, on aggregation inputs, on fields of any
\* kind, and on token lists.
Spec == Init /\ [][Next]_vars
SpecAgg == InitAgg /\ [][Next]_vars
SpecField == InitField /\ [][Next]_vars
SpecToken == InitToken /\ [][Next]_vars
SpecSnapshot == InitSnapshot /\ [][Next]_vars
SpecOrigin == InitOrigin /\ [][Next]_vars
SpecStamp == InitStamp /\ [][Next]_vars
SpecFetch == InitFetch /\ [][Next]_vars
SpecLoad == InitLoad /\ [][Next]_vars
SpecAgree == InitAgree /\ [][Next]_vars

\* ------------------------------------------------------------------ claims
\* Record j of the input is a sell of the token of record b, strictly later.
IsLaterSell(b, j) ==
    /\ trades[j].trade_direction = "sell"
    /\ trades[j].token_address = trades[b].token_address
    /\ trades[j].executed_at > trades[b].executed_at

IsBuy(b) == trades[b].trade_direction = "buy"
HasLaterSell(b) == \E j \in 1..Len(trades) : IsLaterSell(b, j)
Pairs == {trade_results[i] : i \in 1..Len(trade_results)}
PairingOver == pc \notin {"token_map", "partition", "pair", "load", "group", "pair_group",
                          "token_info", "pair_first", "analyze_tokens", "fetch"}
PerBuyScripts == {"deep_analysis", "full_analysis_report", "analyze_experiment"}

\* C1: in deep_analysis and full_analysis_report the sell of every TradePair
\* is the first record of the input list that is a sell of the buy's token
\* address with a strictly later timestamp; no sell with an equal or earlier
\* timestamp is selected, and no sell further down the list is preferred for
\* being earlier in time.
C1_FirstLaterSellInListOrder ==
    script \in FlatScripts =>
        \A p \in Pairs :
            /\ IsBuy(p.buy)
            /\ IsLaterSell(p.buy, p.sell)
            /\ \A j \in 1..(p.sell - 1) : ~IsLaterSell(p.buy, j)

\* A pair whose sell is later in time than another later sell of the same
\* token that stands further down the list.
C1_Witness ==
    /\ script \in FlatScripts
    /\ PairingOver
    /\ \E p \in Pairs : \E j \in (p.sell + 1)..Len(trades) :
            /\ IsLaterSell(p.buy, j)
            /\ trades[j].executed_at < trades[p.sell].executed_at

\* C2: a buy with no later sell of its token produces no TradePair and no
\* error; once pairing is over there is exactly one TradePair per buy that
\* has such a sell, so there are never more TradePairs than buys.
C2_UnmatchedBuyDropped ==
    script \in PerBuyScripts =>
        /\ err # "none" => PairingOver
        /\ \A p \in Pairs : IsBuy(p.buy) /\ HasLaterSell(p.buy)
        /\ \A i, j \in 1..Len(trade_results) :
                trade_results[i].buy = trade_results[j].buy => i = j
        /\ Len(trade_results) <= Len(SelectSeq(trades, LAMBDA t : t.trade_direction = "buy"))
        /\ PairingOver =>
                {p.buy : p \in Pairs} = {b \in 1..Len(trades) : IsBuy(b) /\ HasLaterSell(b)}

\* Pairing is over with one buy paired and another buy, which has no later
\* sell of its token although sells exist, left out.
C2_Witness ==
    /\ script \in PerBuyScripts
    /\ PairingOver
    /\ Len(trade_results) = 1
    /\ \E b \in 1..Len(trades) :
            /\ IsBuy(b)
            /\ ~HasLaterSell(b)
            /\ \E j \in 1..Len(trades) :
                    /\ trades[j].trade_direction = "sell"
                    /\ trades[j].token_address = trades[b].token_address

\* The profit percent a TradePair carries, as a value.
PairProfit(p) == IF script = "analyze_experiment" THEN Num(p.profit_percent) ELSE p.profit

\* C3: the profit percent of every TradePair is the number found under
\* profitPercent in the metadata of the paired sell, whatever the two prices
\* are, and 0 when the metadata has no profitPercent.
C3_ProfitPassThrough ==
    script \in PerBuyScripts =>
        \A p \in Pairs :
            LET m == trades[p.sell].profitPercent
            IN /\ m.k = "num" => PairProfit(p) = m
               /\ m.k = "absent" => PairProfit(p) = Num(0)

\* A pair carrying the profit percent of its sell, which differs from the
\* change of the price and from what another sell of the token carries.
C3_Witness ==
    /\ script \in PerBuyScripts
    /\ \E p \in Pairs :
            /\ trades[p.sell].profitPercent.k = "num"
            /\ PairProfit(p) = trades[p.sell].profitPercent
            /\ PairProfit(p).v # trades[p.sell].unit_price.v - trades[p.buy].unit_price.v
            /\ \E j \in 1..Len(trades) :
                    /\ trades[j].trade_direction = "sell"
                    /\ trades[j].token_address = trades[p.buy].token_address
                    /\ trades[j].profitPercent # trades[p.sell].profitPercent


\* The profit percents of the TradePairs, as numbers.
ProfitNums ==
    [i \in 1..Len(trade_results) |-> PairProfit(trade_results[i]).v]
CountOf(xs, Test(_)) == Cardinality({i \in 1..Len(xs) : Test(xs[i])})
Wins == CountOf(ProfitNums, LAMBDA x : x > 0)
Losses == CountOf(ProfitNums, LAMBDA x : x < 0)
Zeros == CountOf(ProfitNums, LAMBDA x : x = 0)
Reported(field) == script \in PerBuyScripts /\ field \in DOMAIN report

\* C4 (as claimed): no aggregation pass hands an empty list to mean, median,
\* min or max or divides by a count of 0, so aggregation raises nothing, also
\* when there is no TradePair, no winning pair or no losing pair.
C4_AggregationNeverRaises ==
    err \notin {"StatisticsError", "ZeroDivisionError"}

\* C5: the reported numbers of wins (profit > 0) and losses (profit < 0) and
\* the number of pairs of profit 0 add up to the number of TradePairs, and a
\* reported win rate is wins over total, between 0 and 100 percent.
C5_WinsLossesZerosPartition ==
    Reported("gains") =>
        /\ report.total = Len(trade_results)
        /\ report.gains = Wins
        /\ report.losses = Losses
        /\ report.gains + report.losses + Zeros = report.total
        /\ "gain_rate" \in DOMAIN report =>
                /\ report.gain_rate = Frac(100 * Wins, Len(trade_results))
                /\ report.gain_rate.den > 0
                /\ 0 <= report.gain_rate.num
                /\ report.gain_rate.num <= 100 * report.gain_rate.den

\* A win rate is reported over a winning, a losing and a zero-profit pair.
C5_Witness ==
    /\ Reported("gain_rate")
    /\ Wins = 1
    /\ Losses = 1
    /\ Zeros = 1

\* C6 (as claimed): a pair of profit 0 is in neither the winning nor the
\* losing group of any script.
C6_ZeroInNeitherGroup ==
    /\ \A i \in 1..Len(loss_tokens) : loss_tokens[i].profit.v # 0
    /\ \A i \in 1..Len(profitable_tokens) : profitable_tokens[i].profit.v # 0
    /\ Reported("gains") => report.gains = Wins /\ report.losses = Losses

\* C7: the reported ratio is wins over losses when a pair lost, and 0 when
\* none did, whatever the number of wins; computing it divides by no zero.
C7_WinLossRatioSentinel ==
    /\ Reported("ratio") =>
            /\ Losses > 0 => report.ratio = Frac(Wins, Losses)
            /\ Losses = 0 => report.ratio = Frac(0, 1)
    /\ script \in FlatScripts /\ trade_results # <<>> => err # "ZeroDivisionError"

\* A ratio of 0 is reported for pairs that won and none that lost.
C7_Witness ==
    /\ Reported("ratio")
    /\ Wins > 0
    /\ Losses = 0
    /\ report.ratio = Frac(0, 1)

\* C8 (as claimed): no numeric field of any kind raises TypeError or
\* ValueError, and a profit percent or hold duration that is no number
\* reaches the TradePair as 0.
C8_FieldsDefaultToZero ==
    /\ err \notin {"TypeError", "ValueError"}
    /\ script \in FlatScripts =>
            \A p \in Pairs :
                /\ trades[p.sell].profitPercent.k # "num" => p.profit = Num(0)
                /\ trades[p.sell].holdDuration.k # "num" => p.hold_seconds = Num(0)

\* C9: in the histogram of print_simple_report a profit of exactly 50 is
\* counted in the 20-50 band and not above 50, and a profit of exactly 0 in
\* the band of losses up to 20.
C9_HistogramBoundaries ==
    Reported("profit_ranges") =>
        /\ report.profit_ranges["profit_gt_50"] = CountOf(ProfitNums, LAMBDA x : x > 50)
        /\ report.profit_ranges["profit_20_50"]
               = CountOf(ProfitNums, LAMBDA x : 20 < x /\ x <= 50)
        /\ report.profit_ranges["loss_0_20"]
               = CountOf(ProfitNums, LAMBDA x : -20 < x /\ x <= 0)

\* The histogram of a pair of profit 50 and a pair of profit 0, which counts
\* as no loss.
C9_Witness ==
    /\ Reported("profit_ranges")
    /\ ProfitNums = <<50, 0>>
    /\ report.profit_ranges["profit_20_50"] = 1
    /\ report.profit_ranges["loss_0_20"] = 1
    /\ report.losses = 0

TvlScripts == {"deep_analysis", "full_analysis_report", "analyze_tokens"}
IsAscending(xs) == \A i \in 1..(Len(xs) - 1) : xs[i] <= xs[i + 1]
\* x is the element that k elements of xs precede in ascending order.
HasRank(xs, x, k) ==
    /\ \E i \in 1..Len(xs) : xs[i] = x
    /\ CountOf(xs, LAMBDA y : y < x) <= k
    /\ k < CountOf(xs, LAMBDA y : y <= x)

\* C10: of n >= 4 positive TVL values the reported 25th percentile is the
\* element at index floor(n/4) and the 75th the element at index floor(3n/4)
\* of the ascending list, counting from 0; analyze_tokens reports 0 for both
\* when n < 4.
C10_PercentileByIndex ==
    script \in TvlScripts /\ "tvl_count" \in DOMAIN report =>
        LET s == report.tvl_sorted
            n == report.tvl_count
        IN /\ n = Len(s)
           /\ IsAscending(s)
           /\ n >= 4 =>
                /\ report.tvl_p25 = s[(n \div 4) + 1]
                /\ report.tvl_p75 = s[((3 * n) \div 4) + 1]
                /\ HasRank(s, report.tvl_p25, n \div 4)
                /\ HasRank(s, report.tvl_p75, (3 * n) \div 4)
           /\ script = "analyze_tokens" /\ n < 4 =>
                report.tvl_p25 = 0 /\ report.tvl_p75 = 0

\* Percentiles of five positive values that the token list holds in
\* descending order somewhere.
C10_Witness ==
    /\ script \in TvlScripts
    /\ "tvl_p25" \in DOMAIN report
    /\ report.tvl_count = 5
    /\ report.tvl_p25 < report.tvl_p75
    /\ \E i \in 1..(Len(tokens) - 1) : tokens[i].tvl.v > tokens[i + 1].tvl.v

\* The tvl (fdv) values of the token list that are numbers above 0, in list
\* order.
PositiveTvls ==
    LET kept == SelectSeq(tokens, LAMBDA t : t.tvl.k \in {"num", "numstr"} /\ t.tvl.v > 0)
    IN [i \in 1..Len(kept) |-> kept[i].tvl.v]
PositiveFdvs ==
    LET kept == SelectSeq(tokens, LAMBDA t : t.fdv.k \in {"num", "numstr"} /\ t.fdv.v > 0)
    IN [i \in 1..Len(kept) |-> kept[i].fdv.v]
IsPermutation(xs, ys) ==
    /\ Len(xs) = Len(ys)
    /\ \A i \in 1..Len(xs) :
            CountOf(xs, LAMBDA x : x = xs[i]) = CountOf(ys, LAMBDA y : y = xs[i])
\* q is the median of xs: the middle element, or half the sum of the two
\* middle ones.
IsMedian(xs, q) ==
    LET n == Len(xs)
    IN \E a, b \in {xs[i] : i \in 1..n} :
            /\ HasRank(xs, a, (n - 1) \div 2)
            /\ HasRank(xs, b, n \div 2)
            /\ 2 * q.num = (a + b) * q.den
            /\ q.den > 0
SnapshotScripts == {"full_analysis_report", "analyze_tokens"}

\* C11: the reported TVL count, sorted list, min, median, percentiles and max
\* are those of exactly the snapshot values that are numbers strictly above
\* 0; values that are 0, negative, absent, null, empty or unparseable take no
\* part.  The FDV statistics of analyze_tokens likewise.
C11_PositiveOnlyStatistics ==
    script \in SnapshotScripts /\ "tvl_count" \in DOMAIN report =>
        LET pos == PositiveTvls
            n == Len(pos)
        IN /\ report.tvl_count = n
           /\ IsPermutation(report.tvl_sorted, pos)
           /\ IsAscending(report.tvl_sorted)
           /\ n > 0 =>
                /\ report.tvl_min = Min(pos)
                /\ report.tvl_max = Max(pos)
                /\ IsMedian(pos, report.tvl_median)
           /\ n >= 4 =>
                /\ HasRank(pos, report.tvl_p25, n \div 4)
                /\ HasRank(pos, report.tvl_p75, (3 * n) \div 4)
           /\ script = "analyze_tokens" =>
                /\ report.fdv_count = Len(PositiveFdvs)
                /\ PositiveFdvs # <<>> =>
                    /\ report.fdv_min = Min(PositiveFdvs)
                    /\ report.fdv_max = Max(PositiveFdvs)
                    /\ IsMedian(PositiveFdvs, report.fdv_median)

\* The list 0, 0, 100, 200, 300, 400: the statistics are those of 100, 200,
\* 300, 400, with min 100, median 250, max 400 and count 4.
C11_Witness ==
    /\ script \in SnapshotScripts
    /\ [i \in 1..Len(tokens) |-> tokens[i].tvl] = ExampleTvls
    /\ "tvl_median" \in DOMAIN report
    /\ report.tvl_sorted = <<100, 200, 300, 400>>
    /\ report.tvl_count = 4
    /\ report.tvl_min = 100
    /\ report.tvl_max = 400
    /\ report.tvl_median.num = 250 * report.tvl_median.den

\* The input is one buy of token A at time 0 and one later sell of token A
\* with profitPercent -50 and holdDuration 600.
IsSinglePair ==
    /\ Len(trades) = 2
    /\ trades[1] = BuyRec("A", 0)
    /\ trades[2].executed_at > 0
    /\ trades[2] = SellRec("A", trades[2].executed_at, Num(-50), Num(600))
AfterProfitStats == PairingOver /\ pc # "profit_stats"
AfterHoldStats == AfterProfitStats /\ pc # "hold_stats"

\* C12: on one buy of token A at time 0 and one later sell of token A with
\* profitPercent -50 and holdDuration 600, deep_analysis and
\* full_analysis_report produce exactly one TradePair, of profit -50 and hold
\* 600 seconds, and report 0 wins, 1 loss and a mean profit of -50;
\* full_analysis_report reports a win rate of 0 and a loss rate of 100
\* percent, deep_analysis a mean hold of 600 seconds, 10 minutes.  Nothing is
\* raised up to there.
C12_SinglePairEndToEnd ==
    script \in FlatScripts /\ IsSinglePair =>
        /\ pc \in {"token_map", "partition", "pair", "profit_stats", "hold_stats"}
                => err = "none"
        /\ PairingOver =>
                /\ Len(trade_results) = 1
                /\ trade_results[1].buy = 1
                /\ trade_results[1].sell = 2
                /\ trade_results[1].profit = Num(-50)
                /\ trade_results[1].hold_seconds = Num(600)
        /\ AfterProfitStats =>
                /\ report.total = 1
                /\ report.gains = 0
                /\ report.losses = 1
                /\ report.mean_profit.num = -50 * report.mean_profit.den
                /\ script = "full_analysis_report" =>
                        /\ report.gain_rate.num = 0
                        /\ report.loss_rate.num = 100 * report.loss_rate.den
        /\ script = "deep_analysis" /\ AfterHoldStats =>
                /\ report.mean_hold.num = 600 * report.mean_hold.den
                /\ report.mean_hold_minutes.num = 10 * report.mean_hold_minutes.den

\* full_analysis_report has reported the loss rate of the sell at time 10.
C12_Witness ==
    /\ script = "full_analysis_report"
    /\ trades = ExampleTrades
    /\ AfterProfitStats
    /\ report.losses = 1
    /\ report.loss_rate = Frac(100, 1)
    /\ report.mean_profit = Frac(-50, 1)

\* C13 (as claimed): every TradePair joins its buy with the chronologically
\* next sell of the token: no sell of that token lies strictly between the
\* time of the buy and the time of the paired sell.
C13_ChronologicallyNextSell ==
    script \in PerBuyScripts =>
        \A p \in Pairs :
            ~ \E j \in 1..Len(trades) :
                /\ IsLaterSell(p.buy, j)
                /\ trades[j].executed_at < trades[p.sell].executed_at

\* Number x is what field key ("tvl" or "fdv") of a snapshot of address a
\* parses to, or 0 when the token list has no snapshot of a.
IsSnapshotValue(a, key, x) ==
    IF \E i \in 1..Len(tokens) : tokens[i].token_address = a
    THEN \E i \in 1..Len(tokens) :
            /\ tokens[i].token_address = a
            /\ x = IF tokens[i][key].k \in {"num", "numstr"} THEN tokens[i][key].v ELSE 0
    ELSE x = 0

\* C14 (as claimed): the tvl and fdv of every TradePair are those of the
\* snapshot of the buy's token address, 0 when there is none, whatever the
\* trade records carry.
C14_TvlFromSnapshot ==
    script \in OriginScripts =>
        \A p \in Pairs :
            /\ IsSnapshotValue(trades[p.buy].token_address, "tvl", p.tvl)
            /\ IsSnapshotValue(trades[p.buy].token_address, "fdv", p.fdv)

\* The same of deep_analysis alone.
DeepTvlFromSnapshot == script = "deep_analysis" => C14_TvlFromSnapshot

\* The time the claim gives a record: executed_at when it has a value,
\* created_at when it is null or missing.
UsableTime(r) == IF r.executed = "value" THEN r.executed_at ELSE r.created_at
IsUsablyLaterSell(b, j) ==
    /\ trades[j].trade_direction = "sell"
    /\ trades[j].token_address = trades[b].token_address
    /\ UsableTime(trades[j]) > UsableTime(trades[b])
FallsBack ==
    /\ err # "AttributeError"
    /\ \A p \in Pairs : IsBuy(p.buy) /\ IsUsablyLaterSell(p.buy, p.sell)
    /\ PairingOver =>
            \A b \in 1..Len(trades) :
                IsBuy(b) /\ (\E j \in 1..Len(trades) : IsUsablyLaterSell(b, j))
                    => \E p \in Pairs : p.buy = b

\* C15 (as claimed): pairing compares executed_at when it has a value and
\* created_at when executed_at is missing or null; it raises nothing, pairs
\* only with a sell that is later by these times, and leaves out no buy that
\* has one.
C15_TimestampFallback == script \in PerBuyScripts => FallsBack

\* The same for inputs where no executed_at is null.
FallsBackWhenMissing ==
    script \in PerBuyScripts /\ (\A i \in 1..Len(trades) : trades[i].executed # "none")
        => FallsBack

IsFailure(outcome) == outcome \in {"ConnectionError", "Timeout", "JSONDecodeError"}
Fetched == {Endpoints[i] : i \in 1..(bi - 1)}

\* C16: fetch_data raises nothing; whatever the earlier endpoints answered,
\* every endpoint is fetched in turn; the result of an endpoint that failed
\* by a connection error, a timeout or an undecodable body is the empty
\* mapping and that of one that answered is its body; the mapping returned
\* has the four keys tokens, signals, trades and portfolio.
C16_FetchDegradesToEmpty ==
    script = "fetch_data" =>
        /\ err = "none"
        /\ DOMAIN data = Fetched
        /\ \A key \in DOMAIN data :
                /\ IsFailure(responses[key]) => data[key] = <<>>
                /\ responses[key] = "object" => data[key] = [data |-> <<>>]
        /\ pc = "done" => DOMAIN data = {"tokens", "signals", "trades", "portfolio"}

\* fetch_data has returned: two endpoints failed, undecodable body first,
\* and the two after each of them answered.
C16_Witness ==
    /\ script = "fetch_data"
    /\ pc = "done"
    /\ responses["tokens"] = "JSONDecodeError"
    /\ responses["trades"] = "Timeout"
    /\ data["tokens"] = <<>>
    /\ data["signals"] = [data |-> <<>>]
    /\ data["trades"] = <<>>
    /\ data["portfolio"] = [data |-> <<>>]

\* C17: when the data file of analyze_experiment is missing or holds no valid
\* JSON, the run stops with a message and without an exception; no trade is
\* grouped or paired and nothing but the message is reported.
C17_StartupFailureStops ==
    script = "analyze_experiment" /\ file # "ok" =>
        /\ pc \in {"load", "stopped"}
        /\ err = "none"
        /\ trades_by_token = <<>>
        /\ trade_results = <<>>
        /\ DOMAIN report \subseteq {"message"}
        /\ pc = "stopped" => "message" \in DOMAIN report

\* The run has stopped on a data file that holds no valid JSON.
C17_Witness ==
    /\ script = "analyze_experiment"
    /\ file = "malformed"
    /\ pc = "stopped"
    /\ report = [message |-> "JSONDecodeError"]

\* C18: no step of pairing or aggregation changes the loaded trade list, a
\* trade record or its metadata, or a token snapshot.
C18_SourceRecordsReadOnly == [][trades' = trades /\ tokens' = tokens]_vars

\* Statistics are reported over a pair whose sell has no profitPercent, for
\* which the default was used.
C18_Witness ==
    /\ script \in FlatScripts
    /\ "mean_profit" \in DOMAIN report
    /\ \E p \in Pairs : trades[p.sell].profitPercent = Absent

\* Record s is the first sell of the list that is of the token of buy b and
\* strictly later.
IsFirstLaterSell(b, s) ==
    /\ s \in 1..Len(trades)
    /\ IsLaterSell(b, s)
    /\ \A j \in 1..(s - 1) : ~IsLaterSell(b, j)

\* C19: pairing consumes no sell: once pairing is over, two different buys
\* that have the same first later sell of their token are both paired with
\* it, in two TradePairs that carry that sell's profit percent and hold
\* duration.
C19_SellReused ==
    script \in FlatScripts /\ PairingOver =>
        \A b1, b2 \in 1..Len(trades) : \A s \in 1..Len(trades) :
            /\ b1 # b2
            /\ IsBuy(b1) /\ IsFirstLaterSell(b1, s)
            /\ IsBuy(b2) /\ IsFirstLaterSell(b2, s)
            => \E i, j \in 1..Len(trade_results) :
                    /\ i # j
                    /\ trade_results[i].buy = b1 /\ trade_results[i].sell = s
                    /\ trade_results[j].buy = b2 /\ trade_results[j].sell = s
                    /\ trade_results[i].profit = Get(trades[s].profitPercent, Num(0))
                    /\ trade_results[j].profit = trade_results[i].profit
                    /\ trade_results[i].hold_seconds = Get(trades[s].holdDuration, Num(0))
                    /\ trade_results[j].hold_seconds = trade_results[i].hold_seconds

\* Two TradePairs of different buys hold the same sell and its loss of 50
\* percent.
C19_Witness ==
    /\ script \in FlatScripts
    /\ PairingOver
    /\ \E i, j \in 1..Len(trade_results) :
            /\ trade_results[i].buy # trade_results[j].buy
            /\ trade_results[i].sell = trade_results[j].sell
            /\ trade_results[i].profit = Num(-50)
            /\ trade_results[j].profit = Num(-50)

\* C20: the five counts of the histogram are the numbers of profits above
\* 50, in (20, 50], in (0, 20], in (-20, 0] and at or below -20, so every
\* profit is counted once and the counts add up to the number of TradePairs.
C20_HistogramPartition ==
    Reported("profit_ranges") =>
        LET h == report.profit_ranges
        IN /\ DOMAIN h = Bands
           /\ h["profit_gt_50"] = CountOf(ProfitNums, LAMBDA x : x > 50)
           /\ h["profit_20_50"] = CountOf(ProfitNums, LAMBDA x : 20 < x /\ x <= 50)
           /\ h["profit_0_20"] = CountOf(ProfitNums, LAMBDA x : 0 < x /\ x <= 20)
           /\ h["loss_0_20"] = CountOf(ProfitNums, LAMBDA x : -20 < x /\ x <= 0)
           /\ h["loss_gt_20"] = CountOf(ProfitNums, LAMBDA x : x <= -20)
           /\ h["profit_gt_50"] + h["profit_20_50"] + h["profit_0_20"]
                + h["loss_0_20"] + h["loss_gt_20"] = Len(trade_results)

\* The histogram of profits 20, -20 and 60: one in (0, 20], one at or below
\* -20, one above 50.
C20_Witness ==
    /\ Reported("profit_ranges")
    /\ ProfitNums = <<20, -20, 60>>
    /\ report.profit_ranges["profit_0_20"] = 1
    /\ report.profit_ranges["loss_gt_20"] = 1
    /\ report.profit_ranges["profit_gt_50"] = 1


\* The result rows of the run: the TradePairs, and in analyze_trade_tokens the
\* rows of profitable_tokens and loss_tokens.
Rows ==
    Pairs \cup {profitable_tokens[i] : i \in 1..Len(profitable_tokens)}
          \cup {loss_tokens[i] : i \in 1..Len(loss_tokens)}

\* The sell of row p has the token address of its buy.
SameToken(p) == trades[p.sell].token_address = trades[p.buy].token_address
\* The sell of row p is strictly later than its buy.
SellIsLater(p) == TimeOf(trades[p.sell]) > TimeOf(trades[p.buy])

\* C21 (as claimed): in each of the four pairing scripts every result row
\* joins a buy with a sell of the same token address whose timestamp is
\* strictly later than the buy's.
C21_PairWellFormed ==
    script \in PairingScripts =>
        \A p \in Rows :
            /\ trades[p.buy].trade_direction = "buy"
            /\ trades[p.sell].trade_direction = "sell"
            /\ SameToken(p)
            /\ SellIsLater(p)

\* The same of the three scripts that pair per buy.
PerBuyPairWellFormed ==
    script \in PerBuyScripts =>
        \A p \in Rows :
            /\ trades[p.buy].trade_direction = "buy"
            /\ trades[p.sell].trade_direction = "sell"
            /\ SameToken(p)
            /\ SellIsLater(p)

\* In analyze_trade_tokens the rows join a buy and a sell of one token.
FirstPairSameToken ==
    script = "analyze_trade_tokens" =>
        \A p \in Rows :
            /\ trades[p.buy].trade_direction = "buy"
            /\ trades[p.sell].trade_direction = "sell"
            /\ SameToken(p)


\* The (buy, sell) positions of the TradePairs of the run.
PairSet == {<<p.buy, p.sell>> : p \in Pairs}
\* The pairing of the run has ended, at the end of its loop or by an exception.
PairingEnded == PairingOver \/ (err # "none" /\ pc \in {"pair", "pair_group"})

\* C22 (as claimed): on every trade list the grouped pairing of
\* analyze_trades_and_signals and the flat pairing of deep_analysis produce
\* the same set of (buy, sell) pairs: what either script has produced at the
\* end of its pairing is what the other produces on the same list.
C22_GroupedAndFlatAgree ==
    (script \in AgreeScripts /\ PairingEnded) =>
        /\ PairSet = FlatPairsOf(trades)
        /\ PairSet = GroupedPairsOf(trades)

\* What either script has produced at the end of its pairing is what the
\* pairing of its own source computes.
PairingAsComputed ==
    (script \in AgreeScripts /\ PairingEnded) =>
        PairSet = IF script = "deep_analysis" THEN FlatPairsOf(trades)
                  ELSE GroupedPairsOf(trades)

\* The two pairings agree on the lists whose timestamps all parse.
AgreeWhenStamped ==
    (script \in AgreeScripts /\ PairingEnded
        /\ \A i \in 1..Len(trades) : TimeErr(trades[i]) = "none") =>
        /\ PairSet = FlatPairsOf(trades)
        /\ PairSet = GroupedPairsOf(trades)


\* C23: deep_analysis and full_analysis_report index the ascending list of
\* n >= 1 positive TVL values at floor(n/4) and floor(3n/4) without raising:
\* both indices are within 0..n-1, both percentiles are reported, and for n
\* in 1..3 the reported 25th percentile is the smallest value.
C23_PercentileIndexInBounds ==
    script \in FlatScripts =>
        /\ ~(pc = "tvl_dist" /\ err = "IndexError")
        /\ ("tvl_count" \in DOMAIN report /\ report.tvl_count >= 1) =>
                LET s == report.tvl_sorted
                    n == report.tvl_count
                IN /\ n = Len(s)
                   /\ P25Index(n) \in 0..(n - 1)
                   /\ P75Index(n) \in 0..(n - 1)
                   /\ "tvl_p25" \in DOMAIN report /\ "tvl_p75" \in DOMAIN report
                   /\ report.tvl_p25 = s[P25Index(n) + 1]
                   /\ report.tvl_p75 = s[P75Index(n) + 1]
                   /\ n \in 1..3 => \A i \in 1..n : report.tvl_p25 <= s[i]

\* Percentiles of three distinct positive values (below the size guard of
\* analyze_tokens): the 25th is the smallest and the 75th the largest.
C23_Witness ==
    /\ script \in FlatScripts
    /\ "tvl_p25" \in DOMAIN report
    /\ report.tvl_count = 3
    /\ report.tvl_p25 = report.tvl_sorted[1]
    /\ report.tvl_p75 = report.tvl_sorted[3]
    /\ report.tvl_p25 < report.tvl_p75

====
